---- MODULE Spec2Model ----
(***************************************************************************)
(* Model of the backup utilities of kyraneth/backup_tools:                 *)
(*   - get_folder_info, the recursive folder scanner, in its two copies    *)
(*     (pages/1_Folder_Analyzer.py and adv_backup/pages/2_Folder_Checker.py)*)
(*   - start_comparison and the "Start comparison" page handler            *)
(*   - efficient_fitting_greedy, the greedy fitter                         *)
(*                                                                         *)
(* A file system is a sequence of nodes; node i is the entry with id i,    *)
(* its parent is the id of the directory that holds it (0 is the scanned   *)
(* volume's root, which always exists and is readable).  os.scandir lists  *)
(* the children of a directory; the model lists them in id order.          *)
(***************************************************************************)
EXTENDS Integers, Sequences, FiniteSets, TLC

\* ------------------------------------------------------------------ bounds
MaxNodes == 3
MaxFileSize == 1
MaxPairs == 2
MaxThreshold == 1
MaxFolders == 3
MaxSize == 2
MaxTB == 1
\* The model's stand-in for 1024 ** 4, the bytes of one TB, scaled down so
\* that folder sizes and capacities are of the same magnitude.
BytesPerTB == 3

VARIABLES
  fs,                     \* the file system the scans read
  scan_call,              \* the arguments of the last get_folder_info call
  scan_ret,               \* what that call returned (or that it raised)
  directory_pairs,        \* st.session_state.directory_pairs
  size_threshold,
  file_count_threshold,
  cmp_pc,                 \* position in start_comparison / the page handler
  index,                  \* the page handler's loop index
  results,                \* the page handler's results list
  cmp_out,                \* what the caller of the comparison ends with
  folder_infos,           \* st.session_state.folder_infos
  hard_disk_size_tb,
  safety_margin_percent,
  fit_pc,                 \* position in efficient_fitting_greedy
  folder_sizes,           \* the sorted (folder, size) list
  pos,                    \* the selection loop's position in folder_sizes
  result_folders,
  remaining_space         \* in hundredths of a byte (see Percent)

scan_vars == <<scan_call, scan_ret>>
cmp_vars == <<directory_pairs, size_threshold, file_count_threshold,
              cmp_pc, index, results, cmp_out>>
fit_vars == <<folder_infos, hard_disk_size_tb, safety_margin_percent,
              fit_pc, folder_sizes, pos, result_folders, remaining_space>>
vars == <<fs, scan_vars, cmp_vars, fit_vars>>

\* ------------------------------------------------------------ file systems
\* "file": a regular file of `size` bytes; "dir": a readable directory;
\* "locked": a directory os.scandir cannot open (PermissionError);
\* "other": an entry that is neither is_file() nor is_dir() (a socket, a
\* broken symlink).
FileNode(p, s) == [parent |-> p, kind |-> "file", size |-> s]
DirNode(p) == [parent |-> p, kind |-> "dir", size |-> 0]
LockedNode(p) == [parent |-> p, kind |-> "locked", size |-> 0]
OtherNode(p) == [parent |-> p, kind |-> "other", size |-> 0]

Parents(f) == {0} \cup {i \in 1..Len(f) : f[i].kind = "dir"}

NodesUnder(f) ==
  UNION {{FileNode(p, s) : s \in 0..MaxFileSize}
           \cup {DirNode(p), LockedNode(p), OtherNode(p)} : p \in Parents(f)}

RECURSIVE FileSystemsOf(_)
FileSystemsOf(n) ==
  IF n = 0 THEN {<<>>}
  ELSE UNION {{Append(f, node) : node \in NodesUnder(f)} :
                f \in FileSystemsOf(n - 1)}

FileSystems == UNION {FileSystemsOf(n) : n \in 0..MaxNodes}

\* os.scandir(folder_path): the entries of the directory, in id order.
scandir(f, folder_path) ==
  SelectSeq([i \in 1..Len(f) |-> i], LAMBDA i : f[i].parent = folder_path)

\* os.scandir raises for a path that is missing, is no directory or cannot
\* be opened.
CanScan(f, folder_path) ==
  \/ folder_path = 0
  \/ folder_path \in 1..Len(f) /\ f[folder_path].kind = "dir"

is_file(f, entry) == f[entry].kind = "file"
is_dir(f, entry) == f[entry].kind \in {"dir", "locked"}

\* A raised exception: the call returns nothing.
ScanFault ==
  [fault |-> TRUE, total_size |-> 0, file_count |-> 0,
   total_size_scanned |-> 0, notes |-> <<>>]

\* --------------------------------------- get_folder_info, Folder Checker copy
ScanStartChecker(total_size_scanned) ==
  [fault |-> FALSE, total_size |-> 0, file_count |-> 0,
   total_size_scanned |-> total_size_scanned, notes |-> <<>>]

\* The is_file branch with the running total mistaken for the file's size.
AddFileCheckerRunningTotal(acc, entry_size, folder_path, status_text) ==
  [acc EXCEPT !.total_size = @ + acc.total_size_scanned + entry_size,
              !.total_size_scanned = @ + entry_size,
              !.file_count = @ + 1,
              !.notes = IF status_text THEN Append(@, folder_path) ELSE @]

\* The is_file branch: lines 10-15.
AddFileChecker(acc, entry_size, folder_path, status_text) ==
  [acc EXCEPT !.total_size = @ + entry_size,
              !.total_size_scanned = @ + entry_size,
              !.file_count = @ + 1,
              !.notes = IF status_text THEN Append(@, folder_path) ELSE @]

\* The is_dir branch without the subdirectory's file count.
AddSubdirCheckerSizeOnly(acc, sub) ==
  [acc EXCEPT !.total_size = @ + sub.total_size,
              !.total_size_scanned = sub.total_size_scanned,
              !.notes = @ \o sub.notes]

\* The is_dir branch after the recursive call returned: lines 17-19.
AddSubdirChecker(acc, sub) ==
  [acc EXCEPT !.total_size = @ + sub.total_size,
              !.file_count = @ + sub.file_count,
              !.total_size_scanned = sub.total_size_scanned,
              !.notes = @ \o sub.notes]

RECURSIVE get_folder_info_checker(_, _, _, _)
RECURSIVE ScanLoopChecker(_, _, _, _, _)
ScanLoopChecker(f, folder_path, entries, status_text, acc) ==
  IF entries = <<>> THEN acc
  ELSE LET entry == Head(entries) IN
    IF is_file(f, entry)
    THEN ScanLoopChecker(f, folder_path, Tail(entries), status_text,
           AddFileChecker(acc, f[entry].size, folder_path, status_text))
    ELSE IF is_dir(f, entry)
    THEN LET sub == get_folder_info_checker(f, entry, status_text,
                                            acc.total_size_scanned) IN
         IF sub.fault THEN ScanFault
         ELSE ScanLoopChecker(f, folder_path, Tail(entries), status_text,
                AddSubdirChecker(acc, sub))
    ELSE ScanLoopChecker(f, folder_path, Tail(entries), status_text, acc)

get_folder_info_checker(f, folder_path, status_text, total_size_scanned) ==
  IF ~CanScan(f, folder_path) THEN ScanFault
  ELSE ScanLoopChecker(f, folder_path, scandir(f, folder_path), status_text,
                       ScanStartChecker(total_size_scanned))

\* -------------------------------------- get_folder_info, Folder Analyzer copy
ScanStartAnalyzer ==
  [fault |-> FALSE, total_size |-> 0, file_count |-> 0,
   total_size_scanned |-> 0, notes |-> <<>>]

\* The is_file branch: lines 10-11.
AddFileAnalyzer(acc, entry_size) ==
  [acc EXCEPT !.total_size = @ + entry_size, !.file_count = @ + 1]

\* The is_dir branch after the recursive call returned: lines 14-15.  The
\* callee's notifications went to the same sink.
AddSubdirAnalyzer(acc, sub) ==
  [acc EXCEPT !.total_size = @ + sub.total_size,
              !.file_count = @ + sub.file_count,
              !.notes = @ \o sub.notes]

\* Lines 17-18: one notification per entry, whatever its kind.
NotifyAnalyzer(acc, entry, folder_path, status_text) ==
  [acc EXCEPT !.notes = IF status_text THEN Append(@, <<entry, folder_path>>)
                        ELSE @]

RECURSIVE get_folder_info_analyzer(_, _, _)
RECURSIVE ScanLoopAnalyzer(_, _, _, _, _)
ScanLoopAnalyzer(f, folder_path, entries, status_text, acc) ==
  IF entries = <<>> THEN acc
  ELSE LET entry == Head(entries) IN
    IF is_file(f, entry)
    THEN ScanLoopAnalyzer(f, folder_path, Tail(entries), status_text,
           NotifyAnalyzer(AddFileAnalyzer(acc, f[entry].size),
                          entry, folder_path, status_text))
    ELSE IF is_dir(f, entry)
    THEN LET sub == get_folder_info_analyzer(f, entry, status_text) IN
         IF sub.fault THEN ScanFault
         ELSE ScanLoopAnalyzer(f, folder_path, Tail(entries), status_text,
                NotifyAnalyzer(AddSubdirAnalyzer(acc, sub),
                               entry, folder_path, status_text))
    ELSE ScanLoopAnalyzer(f, folder_path, Tail(entries), status_text,
           NotifyAnalyzer(acc, entry, folder_path, status_text))

get_folder_info_analyzer(f, folder_path, status_text) ==
  IF ~CanScan(f, folder_path) THEN ScanFault
  ELSE ScanLoopAnalyzer(f, folder_path, scandir(f, folder_path), status_text,
                        ScanStartAnalyzer)

\* ------------------------------------------------------- start_comparison
Abs(x) == IF x < 0 THEN 0 - x ELSE x

\* list.index(x) + 1: the 1-based position of the first element equal to x.
PairNumber(pairs, pair) ==
  CHOOSE i \in 1..Len(pairs) :
    pairs[i] = pair /\ \A j \in 1..(i - 1) : pairs[j] # pair

\* Line 33: the condition that picks the wording of the message.
MessageSaysIdentical(size_delta, file_count_delta, st, ft) ==
  size_delta <= st /\ file_count_delta <= ft

\* The returned boolean with "or" for "and".
IdenticalEither(size_delta, file_count_delta, st, ft) ==
  size_delta <= st \/ file_count_delta <= ft

\* Line 38: the boolean returned beside the message.
Identical(size_delta, file_count_delta, st, ft) ==
  size_delta <= st /\ file_count_delta <= ft

\* Lines 34 and 36: the formatted message, kept as its fields.  An
\* "identical" message carries size_a and num_files_a, a "different" one the
\* two deltas.
Message(pairs, dir_a, dir_b, a, b, st, ft) ==
  LET size_delta == Abs(a.total_size - b.total_size)
      file_count_delta == Abs(a.file_count - b.file_count)
  IN IF MessageSaysIdentical(size_delta, file_count_delta, st, ft)
     THEN [dir_a |-> dir_a, dir_b |-> dir_b,
           pair |-> PairNumber(pairs, <<dir_a, dir_b>>),
           wording |-> "identical",
           n1 |-> a.total_size, n2 |-> a.file_count]
     ELSE [dir_a |-> dir_a, dir_b |-> dir_b,
           pair |-> PairNumber(pairs, <<dir_a, dir_b>>),
           wording |-> "different",
           n1 |-> size_delta, n2 |-> file_count_delta]

\* Lines 27-39: one iteration of the loop, for the pair (dir_a, dir_b).
ComparePair(f, pairs, dir_a, dir_b, st, ft, status_text) ==
  LET a == get_folder_info_checker(f, dir_a, status_text, 0)
      b == get_folder_info_checker(f, dir_b, status_text, 0)
  IN IF a.fault \/ b.fault THEN [fault |-> TRUE]
     ELSE [fault |-> FALSE,
           result |-> Message(pairs, dir_a, dir_b, a, b, st, ft),
           identical |-> Identical(Abs(a.total_size - b.total_size),
                                   Abs(a.file_count - b.file_count), st, ft)]

\* results.insert(0, ...) for results.append(...).
PrependResult(res, r) ==
  <<[result |-> r.result, identical |-> r.identical]>> \o res

\* Line 39: results.append((result, identical)).
AppendResult(res, r) ==
  Append(res, [result |-> r.result, identical |-> r.identical])

RECURSIVE CompareLoop(_, _, _, _, _, _, _)
CompareLoop(f, pairs, k, st, ft, status_text, res) ==
  IF k > Len(pairs) THEN [fault |-> FALSE, results |-> res]
  ELSE LET r == ComparePair(f, pairs, pairs[k][1], pairs[k][2], st, ft,
                            status_text) IN
       IF r.fault THEN [fault |-> TRUE, results |-> <<>>]
       ELSE CompareLoop(f, pairs, k + 1, st, ft, status_text,
                        AppendResult(res, r))

start_comparison(f, pairs, st, ft, status_text) ==
  CompareLoop(f, pairs, 1, st, ft, status_text, <<>>)

\* ----------------------------------------------- efficient_fitting_greedy
\* The divisor of line 24.  Capacities are kept in hundredths of a byte, so
\* that hard_disk_size_bytes * (safety_margin_percent / 100) is exact.
Percent == 100

\* The capacity with the safety margin left out.
AdjustedCapacityNoMargin(tb, pct) == tb * BytesPerTB * Percent

\* Lines 23-25, in hundredths of a byte.
AdjustedCapacity(tb, pct) ==
  LET hard_disk_size_bytes == tb * BytesPerTB
      safety_margin == hard_disk_size_bytes * pct
  IN hard_disk_size_bytes * Percent - safety_margin

\* Line 27: the (folder, size) pairs of the folder infos.
FolderSizes(infos) ==
  [i \in 1..Len(infos) |-> [folder |-> infos[i].folder, size |-> infos[i].size]]

\* A descending sort that reverses ties (an ascending sort, reversed): an
\* element goes before the elements of its own size.
InsertDescendingUnstable(sorted, x) ==
  LET n == Cardinality({i \in 1..Len(sorted) : sorted[i].size > x.size})
  IN SubSeq(sorted, 1, n) \o <<x>> \o SubSeq(sorted, n + 1, Len(sorted))

\* list.sort(key=size, reverse=True) is stable: an element goes behind every
\* element that is at least as large.
InsertDescending(sorted, x) ==
  LET n == Cardinality({i \in 1..Len(sorted) : sorted[i].size >= x.size})
  IN SubSeq(sorted, 1, n) \o <<x>> \o SubSeq(sorted, n + 1, Len(sorted))

RECURSIVE SortFrom(_, _, _)
SortFrom(seq, k, sorted) ==
  IF k > Len(seq) THEN sorted
  ELSE SortFrom(seq, k + 1, InsertDescending(sorted, seq[k]))

\* Line 28.
SortDescending(seq) == SortFrom(seq, 1, <<>>)

\* "<" for "<=".
FitsStrictly(size, remaining) == size * Percent < remaining

\* Line 34.
Fits(size, remaining) == size * Percent <= remaining

\* Line 36.
Decrement(remaining, size) == remaining - size * Percent

\* ------------------------------------------------------------------ inputs
NoCall == [copy |-> "none", folder_path |-> 0, status_text |-> FALSE,
           total_size_scanned |-> 0]
NoOutput == [outcome |-> "none", results |-> <<>>]

\* The tree the comparisons read: folders 1 (two files, 2 bytes), 2 (a file
\* and a nested file, 3 bytes), 3 (three files, 3 bytes) and 4 (a file and
\* a subdirectory that cannot be opened).
SampleFS ==
  << DirNode(0), DirNode(0), DirNode(0), DirNode(0),
     FileNode(1, 1), FileNode(1, 1),
     DirNode(2), FileNode(7, 2), FileNode(2, 1),
     FileNode(3, 1), FileNode(3, 1), FileNode(3, 1),
     FileNode(4, 1), LockedNode(4) >>
SamplePaths == {i \in 1..Len(SampleFS) : SampleFS[i].parent = 0}

RECURSIVE SeqsUpTo(_, _)
SeqsUpTo(S, n) ==
  IF n = 0 THEN {<<>>}
  ELSE LET shorter == SeqsUpTo(S, n - 1) IN
       shorter \cup {Append(q, x) : q \in {r \in shorter : Len(r) = n - 1},
                                    x \in S}

Folders == {"a", "b"}
FolderInfos ==
  SeqsUpTo([folder : Folders, size : 0..MaxSize, file_count : {1}], MaxFolders)
\* What the page's widgets admit (lines 42-43): a capacity >= 0 and a
\* margin of 0..100.
Capacities == 0..MaxTB
Margins == {0, 10, 50, 100}
\* What a caller of the function itself may pass.
AnyCapacities == (0 - 1)..MaxTB
AnyMargins == {0 - 10, 0, 50, 100, 110}

IdleScan == scan_call = NoCall /\ scan_ret = ScanFault
IdleCompare ==
  /\ cmp_pc = "idle" /\ index = 0 /\ results = <<>> /\ cmp_out = NoOutput
IdleFit ==
  /\ fit_pc = "idle" /\ folder_sizes = <<>> /\ pos = 0
  /\ result_folders = <<>> /\ remaining_space = 0
NoCompareInput ==
  directory_pairs = <<>> /\ size_threshold = 0 /\ file_count_threshold = 0
NoFitInput ==
  folder_infos = <<>> /\ hard_disk_size_tb = 0 /\ safety_margin_percent = 0

\* ----------------------------------------------------------------- scanner
InitScan ==
  /\ fs \in FileSystems
  /\ IdleScan /\ IdleCompare /\ NoCompareInput /\ IdleFit /\ NoFitInput

\* A call of the Folder Analyzer's get_folder_info.
ScanAnalyzer ==
  /\ scan_call = NoCall
  /\ \E folder_path \in 0..(Len(fs) + 1), status_text \in BOOLEAN :
       /\ scan_call' = [copy |-> "analyzer", folder_path |-> folder_path,
                        status_text |-> status_text, total_size_scanned |-> 0]
       /\ scan_ret' = get_folder_info_analyzer(fs, folder_path, status_text)
  /\ UNCHANGED <<fs, cmp_vars, fit_vars>>

\* A call of the Folder Checker's get_folder_info.
ScanChecker ==
  /\ scan_call = NoCall
  /\ \E folder_path \in 0..(Len(fs) + 1), status_text \in BOOLEAN,
        total_size_scanned \in 0..MaxFileSize :
       /\ scan_call' = [copy |-> "checker", folder_path |-> folder_path,
                        status_text |-> status_text,
                        total_size_scanned |-> total_size_scanned]
       /\ scan_ret' = get_folder_info_checker(fs, folder_path, status_text,
                                              total_size_scanned)
  /\ UNCHANGED <<fs, cmp_vars, fit_vars>>

NextScan == ScanAnalyzer \/ ScanChecker
SpecScan == InitScan /\ [][NextScan]_vars

\* -------------------------------------------------------------- comparator
InitCompare ==
  /\ fs = SampleFS
  /\ directory_pairs \in SeqsUpTo(SamplePaths \X SamplePaths, MaxPairs)
  /\ size_threshold \in 0..MaxThreshold
  /\ file_count_threshold \in 0..MaxThreshold
  /\ IdleScan /\ IdleCompare /\ IdleFit /\ NoFitInput

\* start_comparison called with the whole sequence of pairs.
CallStartComparison ==
  /\ cmp_pc = "idle"
  /\ \E status_text \in BOOLEAN :
       LET r == start_comparison(fs, directory_pairs, size_threshold,
                                 file_count_threshold, status_text) IN
       cmp_out' = IF r.fault
                  THEN [outcome |-> "FilesystemError", results |-> <<>>]
                  ELSE [outcome |-> "returned", results |-> r.results]
  /\ cmp_pc' = "called"
  /\ UNCHANGED <<fs, scan_vars, directory_pairs, size_threshold,
                 file_count_threshold, index, results, fit_vars>>

\* The "Start comparison" button, lines 70-79.
PageStart ==
  /\ cmp_pc = "idle"
  /\ IF directory_pairs = <<>>
     THEN /\ cmp_pc' = "page_done"
          /\ cmp_out' = [outcome |-> "no_pairs", results |-> <<>>]
          /\ UNCHANGED <<index, results>>
     ELSE /\ cmp_pc' = "page_loop"
          /\ index' = 1
          /\ results' = <<>>
          /\ UNCHANGED cmp_out
  /\ UNCHANGED <<fs, scan_vars, directory_pairs, size_threshold,
                 file_count_threshold, fit_vars>>

\* One iteration of the handler's loop, lines 81-89: start_comparison on the
\* one-element list [pair].  An exception ends the script run.
PageStep ==
  /\ cmp_pc = "page_loop"
  /\ index <= Len(directory_pairs)
  /\ LET r == start_comparison(fs, <<directory_pairs[index]>>, size_threshold,
                               file_count_threshold, TRUE) IN
     IF r.fault
     THEN /\ cmp_pc' = "page_done"
          /\ cmp_out' = [outcome |-> "FilesystemError", results |-> <<>>]
          /\ UNCHANGED <<index, results>>
     ELSE /\ results' = Append(results, r.results[1])
          /\ index' = index + 1
          /\ UNCHANGED <<cmp_pc, cmp_out>>
  /\ UNCHANGED <<fs, scan_vars, directory_pairs, size_threshold,
                 file_count_threshold, fit_vars>>

\* Lines 91-94: the results are rendered.
PageRender ==
  /\ cmp_pc = "page_loop"
  /\ index > Len(directory_pairs)
  /\ cmp_pc' = "page_done"
  /\ cmp_out' = [outcome |-> "rendered", results |-> results]
  /\ UNCHANGED <<fs, scan_vars, directory_pairs, size_threshold,
                 file_count_threshold, index, results, fit_vars>>

NextCompare == CallStartComparison \/ PageStart \/ PageStep \/ PageRender
SpecCompare == InitCompare /\ [][NextCompare]_vars

\* ------------------------------------------------------------------ fitter
InitFit ==
  /\ fs = <<>>
  /\ folder_infos \in FolderInfos
  /\ hard_disk_size_tb \in Capacities
  /\ safety_margin_percent \in Margins
  /\ IdleScan /\ IdleCompare /\ NoCompareInput /\ IdleFit

\* Lines 23-31: the call, up to the selection loop.
FitCall ==
  /\ fit_pc = "idle"
  /\ folder_sizes' = SortDescending(FolderSizes(folder_infos))
  /\ result_folders' = <<>>
  /\ remaining_space' = AdjustedCapacity(hard_disk_size_tb,
                                         safety_margin_percent)
  /\ pos' = 1
  /\ fit_pc' = "loop"
  /\ UNCHANGED <<fs, scan_vars, cmp_vars, folder_infos, hard_disk_size_tb,
                 safety_margin_percent>>

\* Lines 33-36: one iteration of the selection loop.
FitStep ==
  /\ fit_pc = "loop"
  /\ pos <= Len(folder_sizes)
  /\ IF Fits(folder_sizes[pos].size, remaining_space)
     THEN /\ result_folders' = Append(result_folders, folder_sizes[pos])
          /\ remaining_space' = Decrement(remaining_space,
                                          folder_sizes[pos].size)
     ELSE UNCHANGED <<result_folders, remaining_space>>
  /\ pos' = pos + 1
  /\ UNCHANGED <<fs, scan_vars, cmp_vars, folder_infos, hard_disk_size_tb,
                 safety_margin_percent, fit_pc, folder_sizes>>

\* Line 38.
FitReturn ==
  /\ fit_pc = "loop"
  /\ pos > Len(folder_sizes)
  /\ fit_pc' = "returned"
  /\ UNCHANGED <<fs, scan_vars, cmp_vars, folder_infos, hard_disk_size_tb,
                 safety_margin_percent, folder_sizes, pos, result_folders,
                 remaining_space>>

NextFit == FitCall \/ FitStep \/ FitReturn
SpecFit == InitFit /\ [][NextFit]_vars

\* efficient_fitting_greedy called directly, with any numbers.
InitFitCore ==
  /\ fs = <<>>
  /\ folder_infos \in FolderInfos
  /\ hard_disk_size_tb \in AnyCapacities
  /\ safety_margin_percent \in AnyMargins
  /\ IdleScan /\ IdleCompare /\ NoCompareInput /\ IdleFit

SpecFitCore == InitFitCore /\ [][NextFit]_vars

\* ================================================================== claims

\* ---------------------------------------------------------------- scanner
RECURSIVE IsUnder(_, _, _)
IsUnder(f, i, root) ==
  \/ f[i].parent = root
  \/ f[i].parent # 0 /\ IsUnder(f, f[i].parent, root)

TreeUnder(f, root) == {i \in 1..Len(f) : IsUnder(f, i, root)}
FilesUnder(f, root) == {i \in TreeUnder(f, root) : f[i].kind = "file"}

RECURSIVE TotalLength(_, _)
TotalLength(f, S) ==
  IF S = {} THEN 0
  ELSE LET i == CHOOSE j \in S : TRUE IN f[i].size + TotalLength(f, S \ {i})

OnlyFilesAndDirs(f, root) ==
  /\ CanScan(f, root)
  /\ \A i \in TreeUnder(f, root) : f[i].kind \in {"file", "dir"}

\* C3: for a directory tree of regular files and directories only, with N
\* files of L bytes in all, either copy of get_folder_info returns
\* file_count = N and total_size = L (an empty directory gives 0 and 0).
C3_ScanCountsEveryFile ==
  (scan_call.copy # "none" /\ OnlyFilesAndDirs(fs, scan_call.folder_path)) =>
    /\ ~scan_ret.fault
    /\ scan_ret.file_count =
         Cardinality(FilesUnder(fs, scan_call.folder_path))
    /\ scan_ret.total_size =
         TotalLength(fs, FilesUnder(fs, scan_call.folder_path))

\* A scan from the root of a tree with a file below a subdirectory and a
\* file beside it.
C3_Witness ==
  /\ scan_call.copy = "checker"
  /\ scan_call.folder_path = 0
  /\ OnlyFilesAndDirs(fs, 0)
  /\ \E i, j \in FilesUnder(fs, 0) :
       fs[i].parent # 0 /\ fs[j].parent = 0 /\ fs[i].size > 0
  /\ scan_ret.file_count = 2

\* C7: the size and the count get_folder_info returns do not depend on
\* whether a progress sink is passed, nor (Folder Checker copy) on the
\* initial total_size_scanned.
C7_ProgressIsSideChannel ==
  /\ scan_call.copy = "analyzer" =>
       \A status_text \in BOOLEAN :
         LET other == get_folder_info_analyzer(fs, scan_call.folder_path,
                                               status_text) IN
         /\ other.fault = scan_ret.fault
         /\ other.total_size = scan_ret.total_size
         /\ other.file_count = scan_ret.file_count
  /\ scan_call.copy = "checker" =>
       \A status_text \in BOOLEAN, scanned \in 0..MaxFileSize :
         LET other == get_folder_info_checker(fs, scan_call.folder_path,
                                              status_text, scanned) IN
         /\ other.fault = scan_ret.fault
         /\ other.total_size = scan_ret.total_size
         /\ other.file_count = scan_ret.file_count

\* A Folder Checker scan with a sink and a non-zero initial
\* total_size_scanned that notified the sink and went through a
\* subdirectory.
C7_Witness ==
  /\ scan_call.copy = "checker"
  /\ scan_call.status_text
  /\ scan_call.total_size_scanned > 0
  /\ ~scan_ret.fault
  /\ scan_ret.total_size > 0
  /\ scan_ret.total_size_scanned > scan_ret.total_size
  /\ Len(scan_ret.notes) > 0
  /\ \E i \in FilesUnder(fs, scan_call.folder_path) :
       fs[i].parent # scan_call.folder_path

\* ------------------------------------------------------------- comparator
Metrics(dir) == get_folder_info_checker(fs, dir, FALSE, 0)
PairFaults(pair) == Metrics(pair[1]).fault \/ Metrics(pair[2]).fault

\* The verdict the thresholds give for a pair of folders.
WithinThresholds(dir_a, dir_b) ==
  /\ Abs(Metrics(dir_a).total_size - Metrics(dir_b).total_size)
       <= size_threshold
  /\ Abs(Metrics(dir_a).file_count - Metrics(dir_b).file_count)
       <= file_count_threshold

Finished == cmp_out.outcome \in {"returned", "rendered"}

\* C2: a pair is reported identical if and only if its size delta is
\* <= size_threshold and its file count delta is <= file_count_threshold, and
\* the boolean and the wording of the message agree.
C2_IdenticalIffWithinThresholds ==
  Finished =>
    \A k \in 1..Len(cmp_out.results) :
      LET r == cmp_out.results[k] IN
      /\ r.identical <=> WithinThresholds(r.result.dir_a, r.result.dir_b)
      /\ r.identical <=> (r.result.wording = "identical")

\* A comparison that reports one pair identical and another, whose size
\* delta alone is within its threshold, different.
C2_Witness ==
  /\ cmp_out.outcome = "returned"
  /\ \E j, k \in 1..Len(cmp_out.results) :
       /\ cmp_out.results[j].identical
       /\ cmp_out.results[j].result.dir_a # cmp_out.results[j].result.dir_b
       /\ ~cmp_out.results[k].identical
       /\ cmp_out.results[k].result.n1 <= size_threshold
       /\ cmp_out.results[k].result.n2 > file_count_threshold

\* C4: when no scan faults, start_comparison returns one result per input
\* pair, the i-th result being the verdict for the i-th pair, duplicates in
\* the input included.
C4_OneResultPerPairInOrder ==
  (cmp_pc = "called" /\ \A i \in 1..Len(directory_pairs) :
                          ~PairFaults(directory_pairs[i])) =>
    /\ cmp_out.outcome = "returned"
    /\ Len(cmp_out.results) = Len(directory_pairs)
    /\ \A i \in 1..Len(directory_pairs) :
         /\ cmp_out.results[i].result.dir_a = directory_pairs[i][1]
         /\ cmp_out.results[i].result.dir_b = directory_pairs[i][2]
         /\ cmp_out.results[i].identical <=>
              WithinThresholds(directory_pairs[i][1], directory_pairs[i][2])

\* A returned comparison of two different pairs with different verdicts.
C4_Witness ==
  /\ cmp_out.outcome = "returned"
  /\ Len(directory_pairs) = 2
  /\ directory_pairs[1] # directory_pairs[2]
  /\ cmp_out.results[1].identical # cmp_out.results[2].identical

\* C5: a fault scanning pair i fails only pair i; every later pair that
\* scans without a fault still has its result.
C5_LaterPairsSurviveAFault ==
  cmp_pc \in {"called", "page_done"} =>
    \A i, j \in 1..Len(directory_pairs) :
      (i < j /\ PairFaults(directory_pairs[i])
             /\ ~PairFaults(directory_pairs[j])) =>
        \E k \in 1..Len(cmp_out.results) :
          /\ cmp_out.results[k].result.dir_a = directory_pairs[j][1]
          /\ cmp_out.results[k].result.dir_b = directory_pairs[j][2]

\* C10: the pair number in the i-th result message is i, the position of the
\* pair in the entered sequence.
C10_PairNumberIsPosition ==
  Finished =>
    \A i \in 1..Len(cmp_out.results) : cmp_out.results[i].result.pair = i

\* ------------------------------------------------------------------ fitter
RECURSIVE SumSizes(_)
SumSizes(seq) == IF seq = <<>> THEN 0 ELSE Head(seq).size + SumSizes(Tail(seq))

RECURSIVE IsSubsequence(_, _)
IsSubsequence(small, big) ==
  IF small = <<>> THEN TRUE
  ELSE IF big = <<>> THEN FALSE
  ELSE IF Head(small) = Head(big) THEN IsSubsequence(Tail(small), Tail(big))
  ELSE IsSubsequence(small, Tail(big))

OfSize(seq, s) == SelectSeq(seq, LAMBDA x : x.size = s)
Occurrences(seq, x) == Cardinality({i \in 1..Len(seq) : seq[i] = x})
InputPairs ==
  [i \in 1..Len(folder_infos) |->
     [folder |-> folder_infos[i].folder, size |-> folder_infos[i].size]]

\* capacity_bytes * (1 - safety_margin_percent / 100), in hundredths of a byte.
SpecAdjustedCapacity ==
  hard_disk_size_tb * BytesPerTB * (100 - safety_margin_percent)

\* C1: the sizes of the selected folders sum to at most the adjusted
\* capacity, after every iteration of the selection loop and at the return.
C1_SelectionWithinAdjustedCapacity ==
  fit_pc \in {"loop", "returned"} =>
    SumSizes(result_folders) * 100 <= SpecAdjustedCapacity

\* A returned plan with a safety margin that took two folders and rejected
\* one.
C1_Witness ==
  /\ fit_pc = "returned"
  /\ safety_margin_percent > 0
  /\ Len(result_folders) = 2
  /\ SumSizes(result_folders) > 1
  /\ Len(folder_infos) = 3

\* C6: called with a negative capacity or a margin outside 0..100,
\* efficient_fitting_greedy ends in an InvalidInput error, never in a result.
C6_InvalidInputFailsFast ==
  fit_pc = "returned" =>
    hard_disk_size_tb >= 0 /\ safety_margin_percent \in 0..100

\* C8: the selected folders are returned in non-increasing order of size,
\* and those of equal size in their order in the input.
C8_SelectionOrderIsStable ==
  fit_pc = "returned" =>
    /\ \A i, j \in 1..Len(result_folders) :
         i < j => result_folders[i].size >= result_folders[j].size
    /\ \A s \in 0..MaxSize :
         IsSubsequence(OfSize(result_folders, s), OfSize(InputPairs, s))

\* A returned plan with two folders of one size and different names, from
\* an input the sort had to reorder.
C8_Witness ==
  /\ fit_pc = "returned"
  /\ folder_sizes # InputPairs
  /\ \E i, j \in 1..Len(result_folders) :
       /\ i < j
       /\ result_folders[i].size = result_folders[j].size
       /\ result_folders[i].folder # result_folders[j].folder

====
